---- MODULE Spec2Model ----
(***************************************************************************)
(* Model of the gaussian-viewer signalling server (src/main.py): the       *)
(* session registry, the /offer and /ice-candidate handlers, the           *)
(* connection-state handler, the control-channel handler and the           *)
(* FrameProducer.recv retry loop.                                          *)
(*                                                                         *)
(* Scheduling: one asyncio event loop.  Code between two awaits is one     *)
(* atomic action; the retry loop of recv has no await, so it runs to its   *)
(* end in one action, and while it has not ended no other action runs.     *)
(***************************************************************************)
EXTENDS Integers, Sequences, FiniteSets, TLC

\* ---------------------------------------------------------------- bounds
MaxSessions == 2
MaxPulls == 3
MaxMsgs == 2
MaxCalls == 12

\* ------------------------------------------------------ program constants
max_failed_attempts == 10
ClockStep == 3000
Unset == -1

SessionIds == {"a", "b"}

\* ------------------------------------------------- rotation (main.py:189)
\* Angles are multiples of 90 degrees, so that the matrices are integral.
Cos(a) == CASE a = 0 -> 1 [] a = 90 -> 0 [] a = 180 -> -1 [] a = 270 -> 0
Sin(a) == CASE a = 0 -> 0 [] a = 90 -> 1 [] a = 180 -> 0 [] a = 270 -> -1

Rx(a) == << <<1, 0, 0>>, <<0, Cos(a), -Sin(a)>>, <<0, Sin(a), Cos(a)>> >>
Ry(a) == << <<Cos(a), 0, Sin(a)>>, <<0, 1, 0>>, <<-Sin(a), 0, Cos(a)>> >>
Rz(a) == << <<Cos(a), -Sin(a), 0>>, <<Sin(a), Cos(a), 0>>, <<0, 0, 1>> >>

MatMul(A, B) ==
    [i \in 1..3 |-> [j \in 1..3 |->
        A[i][1] * B[1][j] + A[i][2] * B[2][j] + A[i][3] * B[3][j]]]

\* Rotation.from_euler("xyz", r, degrees=True).as_matrix(): lower-case axes
\* are extrinsic rotations about x, then y, then z.
from_euler(r) == MatMul(Rz(r[3]), MatMul(Ry(r[2]), Rx(r[1])))

Identity3 == << <<1, 0, 0>>, <<0, 1, 0>>, <<0, 0, 1>> >>

\* Camera().load(cam_info): the pose every renderer starts with.
InitPose == [position |-> <<9, 9, 9>>, rotation |-> Identity3]

Rotations == { <<0, 0, 0>>, <<90, 0, 0>>, <<0, 90, 90>> }

\* ------------------------------------------- control messages (main.py:183)
\* A message is the text received on the data channel: json says whether
\* json.loads accepts it, obj is the decoded object (a function on its keys).
CameraUpdate(p, r) ==
    [json |-> TRUE,
     obj |-> [k \in {"type", "position", "rotation"} |->
                CASE k = "type" -> "camera_update"
                  [] k = "position" -> p
                  [] k = "rotation" -> r]]

CameraUpdates ==
    { CameraUpdate(<<1, 2, 3>>, r) : r \in Rotations }
        \cup { CameraUpdate(<<0, 0, 0>>, <<0, 0, 0>>) }

Malformed ==
    { [json |-> FALSE, obj |-> <<>>],
      [json |-> TRUE, obj |-> [k \in {"position"} |-> <<1, 2, 3>>]],
      [json |-> TRUE, obj |-> [k \in {"type", "rotation"} |->
                  IF k = "type" THEN "camera_update" ELSE <<90, 0, 0>>]],
      [json |-> TRUE, obj |-> [k \in {"type", "position"} |->
                  IF k = "type" THEN "camera_update" ELSE <<1, 2, 3>>]] }

OtherType ==
    { [json |-> TRUE, obj |-> [k \in {"type", "position", "rotation"} |->
                  CASE k = "type" -> "ping"
                    [] k = "position" -> <<1, 2, 3>>
                    [] k = "rotation" -> <<90, 0, 0>>]] }

Messages == CameraUpdates \cup Malformed \cup OtherType

\* ------------------------------------------ ICE candidates (main.py:142-143)
\* A candidate line is its text split at single spaces; a token is the
\* sequence of its characters.  head is the text before the foundation.
Digit == {"0", "1", "2", "3", "4", "5", "6", "7", "8", "9"}
Letter == {"a", "c", "d", "h", "o", "p", "s", "t", "u", "y"}
WordChar == Digit \cup Letter \cup {"_"}

IsDigits(t) == Len(t) >= 1 /\ \A i \in 1..Len(t) : t[i] \in Digit
IsWord(t) == Len(t) >= 1 /\ \A i \in 1..Len(t) : t[i] \in WordChar
IsNonSpace(t) == Len(t) >= 1

\* re.match(pattern, line): anchored at the start only, so the last group
\* (\w+) takes the leading word characters of the eighth token and whatever
\* follows it is ignored.
Match(line) ==
    /\ line.head = "candidate:"
    /\ Len(line.toks) >= 8
    /\ IsDigits(line.toks[1])
    /\ IsDigits(line.toks[2])
    /\ IsWord(line.toks[3])
    /\ IsDigits(line.toks[4])
    /\ IsNonSpace(line.toks[5])
    /\ IsDigits(line.toks[6])
    /\ line.toks[7] = <<"t", "y", "p">>
    /\ Len(line.toks[8]) >= 1
    /\ line.toks[8][1] \in WordChar

DigitVal(c) ==
    CASE c = "0" -> 0 [] c = "1" -> 1 [] c = "2" -> 2 [] c = "3" -> 3
      [] c = "4" -> 4 [] c = "5" -> 5 [] c = "6" -> 6 [] c = "7" -> 7
      [] c = "8" -> 8 [] c = "9" -> 9

RECURSIVE ToInt(_)
ToInt(t) ==
    IF Len(t) = 0 THEN 0
    ELSE 10 * ToInt(SubSeq(t, 1, Len(t) - 1)) + DigitVal(t[Len(t)])

RECURSIVE WordPrefix(_)
WordPrefix(t) ==
    IF Len(t) = 0 \/ t[1] \notin WordChar THEN <<>>
    ELSE <<t[1]>> \o WordPrefix(Tail(t))

\* RTCIceCandidate(...) built from match.groups() (main.py:145-156)
IceCandidateOf(line) ==
    [foundation |-> line.toks[1],
     component |-> ToInt(line.toks[2]),
     protocol |-> line.toks[3],
     priority |-> ToInt(line.toks[4]),
     ip |-> line.toks[5],
     port |-> ToInt(line.toks[6]),
     type |-> WordPrefix(line.toks[8])]

NoCandidate == [foundation |-> <<>>, component |-> 0, protocol |-> <<>>,
                priority |-> 0, ip |-> <<>>, port |-> 0, type |-> <<>>]

ValidLine ==
    [head |-> "candidate:",
     toks |-> << <<"1">>, <<"1">>, <<"u", "d", "p">>, <<"2", "1", "3">>,
                 <<"1", "0", ".", "0", ".", "0", ".", "5">>, <<"5", "0", "0", "0">>,
                 <<"t", "y", "p">>, <<"h", "o", "s", "t">> >>]

CandidateLines ==
    { ValidLine,
      \* trailing text after the type, and a type followed by punctuation
      [head |-> "candidate:",
       toks |-> << <<"2">>, <<"1">>, <<"t", "c", "p">>, <<"9">>,
                   <<"1", "0", ".", "0", ".", "0", ".", "5">>, <<"9">>,
                   <<"t", "y", "p">>, <<"h", "o", "s", "t", ".">>, <<"a">> >>],
      \* a=candidate: prefix
      [head |-> "a=candidate:", toks |-> ValidLine.toks],
      \* port is not a number
      [head |-> "candidate:",
       toks |-> << <<"1">>, <<"1">>, <<"u", "d", "p">>, <<"2", "1", "3">>,
                   <<"1", "0", ".", "0", ".", "0", ".", "5">>, <<"p", "o", "t">>,
                   <<"t", "y", "p">>, <<"h", "o", "s", "t">> >>],
      \* the empty string
      [head |-> "", toks |-> <<>>] }

\* ------------------------------------------------------------------ state
VARIABLES
    sessions,         \* the registry: session id -> index of its Session in heap
    heap,             \* every Session constructed: [session_id, renderer, pc]
    connectionState,  \* pc handle -> pc.connectionState
    offer,            \* pc handle -> where the create_offer request of that pc stands
    listeners,        \* pc handle -> the events of the pc that have a handler
    renderers,        \* renderer handle -> camera pose of that renderer
    handled,          \* renderer handle -> the camera_update payloads applied to it
    tracks,           \* FrameProducer of each Session: its timestamp counter, where
                      \* its pull stands, what its pulls did so far, and the last
                      \* camera_update payload handled on its channel
    out,              \* what the last request, handler, message or pull did
    nPulls,           \* pulls started so far
    nMsgs             \* control messages delivered so far

vars == <<sessions, heap, connectionState, offer, listeners, renderers, handled,
          tracks, out, nPulls, nMsgs>>

Objs == 1..Len(heap)

\* The event loop runs one task at a time: while a retry loop has not ended,
\* nothing else runs.
LoopFree == ~(out.op = "recv" /\ out.result = "running")

Init ==
    /\ sessions = <<>>
    /\ heap = <<>>
    /\ connectionState = <<>>
    /\ offer = <<>>
    /\ listeners = <<>>
    /\ renderers = <<>>
    /\ handled = <<>>
    /\ tracks = <<>>
    /\ out = [op |-> "none"]
    /\ nPulls = 0
    /\ nMsgs = 0

\* ------------------------------------------------------ registry helpers
Has(reg, sid) == sid \in DOMAIN reg

Put(reg, sid, s) == [k \in (DOMAIN reg) \cup {sid} |-> IF k = sid THEN s ELSE reg[k]]

Del(reg, sid) == [k \in (DOMAIN reg) \ {sid} |-> reg[k]]

\* Session(session_id, renderer, pc)  (main.py:80-88)
Session(sid, renderer, pc) == [session_id |-> sid, renderer |-> renderer, pc |-> pc]

\* create_session: a new Camera and Renderer for every call (main.py:61-62)
NewRenderer == Len(renderers) + 1

\* RTCPeerConnection(): a new peer connection for every request (main.py:166)
NewPc == Len(connectionState) + 1

\* sessions[session_id] = session: an unconditional store (main.py:64)
create_session(reg, sid, s) == Put(reg, sid, s)

\* pc.close() has been called on the pc: from then on it is closed.
Closed(pc) == connectionState[pc] \in {"failed", "closed"}

\* The connection-state handler has run to its end for the failure of the pc.
Torn(pc) == connectionState[pc] = "closed"

\* ---------------------------------------------------------------- /offer
create_offer_body_late_handlers ==
    << [stmt |-> "RTCPeerConnection", await |-> FALSE],
       [stmt |-> "create_session", await |-> FALSE],
       [stmt |-> "addTrack", await |-> FALSE],
       [stmt |-> "setRemoteDescription", await |-> TRUE],
       [stmt |-> "on_connectionstatechange", await |-> FALSE],
       [stmt |-> "on_datachannel", await |-> FALSE],
       [stmt |-> "createAnswer", await |-> TRUE],
       [stmt |-> "setLocalDescription", await |-> TRUE] >>

\* The statements of create_offer in program order (main.py:166-196); await
\* marks the ones at which the coroutine can be suspended.
create_offer_body ==
    << [stmt |-> "RTCPeerConnection", await |-> FALSE],
       [stmt |-> "create_session", await |-> FALSE],
       [stmt |-> "addTrack", await |-> FALSE],
       [stmt |-> "on_connectionstatechange", await |-> FALSE],
       [stmt |-> "on_datachannel", await |-> FALSE],
       [stmt |-> "setRemoteDescription", await |-> TRUE],
       [stmt |-> "createAnswer", await |-> TRUE],
       [stmt |-> "setLocalDescription", await |-> TRUE] >>

\* The statements a coroutine runs from its start to its first await: on the
\* event loop nothing else runs in between.
RECURSIVE BeforeFirstAwait(_)
BeforeFirstAwait(body) ==
    IF body = <<>> \/ Head(body).await THEN <<>>
    ELSE <<Head(body).stmt>> \o BeforeFirstAwait(Tail(body))

Ran(done, stmt) == \E i \in 1..Len(done) : done[i] = stmt

\* pc.on("connectionstatechange") and pc.on("datachannel") (main.py:172, 179)
Listeners(done) ==
    (IF Ran(done, "on_connectionstatechange") THEN {"connectionstatechange"} ELSE {})
        \cup (IF Ran(done, "on_datachannel") THEN {"datachannel"} ELSE {})

\* create_offer up to its first await (main.py:164-192): the peer connection,
\* the Session and its registration, the FrameProducer as the pc's track,
\* the two handlers, then setRemoteDescription is entered.
create_offer(sid) ==
    /\ LoopFree
    /\ Len(heap) < MaxSessions
    /\ heap' = Append(heap, Session(sid, NewRenderer, NewPc))
    /\ sessions' = IF Ran(BeforeFirstAwait(create_offer_body), "create_session")
                   THEN create_session(sessions, sid, Len(heap) + 1)
                   ELSE sessions
    /\ listeners' = Append(listeners, Listeners(BeforeFirstAwait(create_offer_body)))
    /\ out' = [op |-> "create_offer", session_id |-> sid,
               existed |-> Has(sessions, sid),
               before |-> IF Has(sessions, sid) THEN sessions[sid] ELSE 0,
               done |-> BeforeFirstAwait(create_offer_body),
               result |-> "registered"]
    /\ connectionState' = Append(connectionState, "new")
    /\ offer' = Append(offer, "setRemoteDescription")
    /\ renderers' = Append(renderers, InitPose)
    /\ handled' = Append(handled, {})
    /\ tracks' = Append(tracks, [session |-> Len(heap) + 1, timestamp |-> Unset,
                                 state |-> "idle", started |-> 0,
                                 updated |-> FALSE, lastUpdate |-> <<>>,
                                 lastPts |-> Unset, lastOk |-> FALSE,
                                 lastFailed |-> 0])
    /\ UNCHANGED <<nPulls, nMsgs>>

NextStage(st) ==
    CASE st = "setRemoteDescription" -> "createAnswer"
      [] st = "createAnswer" -> "setLocalDescription"
      [] st = "setLocalDescription" -> "returned"

Awaiting(st) == st \in {"setRemoteDescription", "createAnswer", "setLocalDescription"}

\* One of the three awaits of create_offer completes (main.py:192-198).
offer_continue(o) ==
    /\ LoopFree
    /\ o \in Objs
    /\ Awaiting(offer[o])
    /\ offer' = [offer EXCEPT ![o] = NextStage(offer[o])]
    /\ out' = [op |-> "offer_continue", pc |-> o]
    /\ UNCHANGED <<listeners, sessions, heap, connectionState, renderers, handled, tracks,
                   nPulls, nMsgs>>

\* One of the three awaits raises: the request fails; nothing is undone.
offer_raise(o) ==
    /\ LoopFree
    /\ o \in Objs
    /\ Awaiting(offer[o])
    /\ offer' = [offer EXCEPT ![o] = "raised"]
    /\ out' = [op |-> "offer_raise", pc |-> o]
    /\ UNCHANGED <<listeners, sessions, heap, connectionState, renderers, handled, tracks,
                   nPulls, nMsgs>>

\* ------------------------------------------------- connection state
\* ICE and DTLS start once the local description is being set, so the state
\* leaves "new" only from then on.
Transitions ==
    { <<"new", "connecting">>, <<"connecting", "connected">>,
      <<"connecting", "failed">>, <<"connected", "failed">> }

\* The pc reports the state st and on_connectionstatechange, when it is
\* registered on the pc, runs up to its await (main.py:173-176).  For "failed" it enters pc.close(), which closes
\* the pc at once and returns later; the state reads "closed" when it returns.
on_connectionstatechange(o, st) ==
    /\ LoopFree
    /\ o \in Objs
    /\ offer[o] \in {"setLocalDescription", "returned"}
    /\ <<connectionState[o], st>> \in Transitions
    /\ connectionState' = [connectionState EXCEPT ![o] = st]
    /\ out' = [op |-> "connectionstatechange", pc |-> o, state |-> st,
               handler |-> "connectionstatechange" \in listeners[o]]
    /\ UNCHANGED <<listeners, sessions, heap, offer, renderers, handled, tracks, nPulls, nMsgs>>

del_session_skipped(reg, sid) == reg

\* del sessions[session_id] (main.py:177): the key the closure captured,
\* whichever Session it maps to now.
del_session(reg, sid) == Del(reg, sid)

\* on_connectionstatechange after await pc.close() returns (main.py:177);
\* del raises KeyError when the key is gone.
on_connectionstatechange_resume(o) ==
    /\ LoopFree
    /\ o \in Objs
    /\ "connectionstatechange" \in listeners[o]
    /\ connectionState[o] = "failed"
    /\ connectionState' = [connectionState EXCEPT ![o] = "closed"]
    /\ LET sid == heap[o].session_id
       IN IF Has(sessions, sid)
          THEN /\ sessions' = del_session(sessions, sid)
               /\ out' = [op |-> "handler_done", pc |-> o, session_id |-> sid,
                          result |-> "removed", removed |-> sessions[sid]]
          ELSE /\ UNCHANGED sessions
               /\ out' = [op |-> "handler_done", pc |-> o, session_id |-> sid,
                          result |-> "KeyError", removed |-> 0]
    /\ UNCHANGED <<listeners, heap, offer, renderers, handled, tracks, nPulls, nMsgs>>

\* --------------------------------------------------------- /ice-candidate
forward_unconditionally(match) == TRUE

\* if match: ... await pc.addIceCandidate(ice_candidate) (main.py:144-157):
\* whether the request hands a candidate to the pc.
forward_if_match(match) == match

\* add_ice_candidate (main.py:139-159).  sessions[session_id] raises KeyError
\* for an unknown id: nothing catches it, the request ends in that exception.
add_ice_candidate(sid, line) ==
    /\ LoopFree
    /\ IF ~Has(sessions, sid)
       THEN out' = [op |-> "add_ice_candidate", session_id |-> sid, line |-> line,
                    result |-> "KeyError", forwarded |-> FALSE, pc |-> 0,
                    pcClosed |-> FALSE, matched |-> Match(line),
                    candidate |-> NoCandidate]
       ELSE LET pc == heap[sessions[sid]].pc
            IN out' = [op |-> "add_ice_candidate", session_id |-> sid, line |-> line,
                       result |-> "ok", forwarded |-> forward_if_match(Match(line)),
                       pc |-> pc,
                       pcClosed |-> Closed(pc), matched |-> Match(line),
                       candidate |-> IF Match(line) THEN IceCandidateOf(line)
                                     ELSE NoCandidate]
    /\ UNCHANGED <<listeners, sessions, heap, connectionState, offer, renderers, handled,
                   tracks, nPulls, nMsgs>>

\* -------------------------------------------------------- control channel
\* Renderer.update(position, rotation): replaces the camera pose.
RendererUpdate(pose, position, rotation) ==
    [position |-> position, rotation |-> rotation]

\* Renderer.render(): reads the camera pose.
RendererRender(pose) == pose

update_call_position_only(pose, position, rotation) ==
    RendererUpdate(pose, position, pose.rotation)

update_call_first_wins(pose, position, rotation) ==
    IF pose = InitPose THEN RendererUpdate(pose, position, from_euler(rotation))
    ELSE pose

\* track.session.renderer.update(position, rotation)  (main.py:187-190)
update_call(pose, position, rotation) ==
    RendererUpdate(pose, position, from_euler(rotation))

Handle_without_type_check(m) ==
    IF ~m.json THEN "JSONDecodeError"
    ELSE IF "position" \notin DOMAIN m.obj THEN "KeyError"
    ELSE IF "rotation" \notin DOMAIN m.obj THEN "KeyError"
    ELSE "camera_update"

\* What on_message does with a message: "JSONDecodeError" and "KeyError" are
\* raised out of the handler, "ignored" is a type other than camera_update.
Handle(m) ==
    IF ~m.json THEN "JSONDecodeError"
    ELSE IF "type" \notin DOMAIN m.obj THEN "KeyError"
    ELSE IF m.obj["type"] # "camera_update" THEN "ignored"
    ELSE IF "position" \notin DOMAIN m.obj THEN "KeyError"
    ELSE IF "rotation" \notin DOMAIN m.obj THEN "KeyError"
    ELSE "camera_update"

\* on_message of the data channel of track t's peer connection
\* (main.py:182-190); the channel carries messages while the pc is connected.
on_message(t, m) ==
    /\ LoopFree
    /\ t \in Objs
    /\ nMsgs < MaxMsgs
    /\ connectionState[heap[tracks[t].session].pc] = "connected"
    /\ "datachannel" \in listeners[heap[tracks[t].session].pc]
    /\ nMsgs' = nMsgs + 1
    /\ out' = [op |-> "on_message", track |-> t, message |-> m,
               result |-> Handle(m)]
    /\ LET r == heap[tracks[t].session].renderer
       IN IF Handle(m) = "camera_update"
          THEN /\ renderers' = [renderers EXCEPT ![r] =
                     update_call(renderers[r], m.obj["position"], m.obj["rotation"])]
               /\ handled' = [handled EXCEPT ![r] = handled[r] \cup
                     {<<m.obj["position"], m.obj["rotation"]>>}]
               /\ tracks' = [tracks EXCEPT
                     ![t].updated = @ \/ tracks[t].state = "waiting",
                     ![t].lastUpdate = <<m.obj["position"], m.obj["rotation"]>>]
          ELSE UNCHANGED <<renderers, handled, tracks>>
    /\ UNCHANGED <<listeners, sessions, heap, connectionState, offer, nPulls>>

\* ------------------------------------------------------ FrameProducer.recv
\* VideoStreamTrack.next_timestamp(): 0 on the first call, then one clock
\* step further on every call; every call but the first sleeps.
next_timestamp(ts) == IF ts = Unset THEN 0 ELSE ts + ClockStep

failed_attempts_kept(prev) == prev

\* failed_attempts = 0 (main.py:110); prev is the count the previous pull on
\* the same FrameProducer ended with.
failed_attempts_init(prev) == 0

\* parse_frame (main.py:46-57): the first decoded frame, None when the codec
\* yields none or raises (the exception is logged and swallowed).
parse_frame(codec) == IF codec = "frame" THEN "frame" ELSE "None"

frame_pts_per_attempt(p) == p.pts + p.failed_attempts * ClockStep

\* frame.pts = pts (main.py:132)
frame_pts(p) == p.pts

\* What one iteration meets: what render() does and, when it returns data,
\* what the codec does in parse_frame.
Outcomes ==
    { [render |-> "raises", codec |-> "unused"],
      [render |-> "none", codec |-> "unused"],
      [render |-> "empty", codec |-> "unused"],
      [render |-> "data", codec |-> "nothing"],
      [render |-> "data", codec |-> "error"],
      [render |-> "data", codec |-> "frame"] }

Rep(x, n) == [i \in 1..n |-> x]

\* The behaviours of renderer and codec over the first MaxCalls iterations of
\* one pull: i iterations of one kind, then another kind for the rest.
PrefixLens == {0, 1, max_failed_attempts - 1, max_failed_attempts}

Scripts ==
    { Rep(a, i) \o Rep(b, MaxCalls - i) :
        a \in Outcomes \ {[render |-> "data", codec |-> "frame"]},
        b \in Outcomes, i \in PrefixLens }

\* The local variables of recv at the top of the loop (main.py:110-113); prev
\* is the failure count the previous pull on the same FrameProducer ended with.
Locals(prev) ==
    [failed_attempts |-> failed_attempts_init(prev), calls |-> 0, fails |-> 0,
     counted |-> 0, frame |-> "unbound", result |-> "running"]

\* One iteration of the while loop (main.py:113-130) and, when it breaks, the
\* statements after the loop (main.py:132-135).  fails counts the iterations
\* that produced no frame and counted those that reached the except clause;
\* failed_attempts is the code's counter.  After the loop, frame.pts = pts
\* raises when frame was never bound or is None.
Iteration(p, oc) ==
    LET frame == IF oc.render = "data" THEN parse_frame(oc.codec) ELSE p.frame
        ok == oc.render = "data" /\ frame = "frame"
        raised == oc.render = "raises" \/ (oc.render = "data" /\ frame = "None")
        failed == IF raised THEN p.failed_attempts + 1 ELSE p.failed_attempts
        brk == ok \/ (raised /\ failed >= max_failed_attempts)
    IN [failed_attempts |-> failed,
        calls |-> p.calls + 1,
        fails |-> IF ok THEN p.fails ELSE p.fails + 1,
        counted |-> IF raised THEN p.counted + 1 ELSE p.counted,
        frame |-> frame,
        result |-> IF ~brk THEN "running"
                   ELSE IF frame = "frame" THEN "frame"
                   ELSE IF frame = "unbound" THEN "UnboundLocalError"
                   ELSE "AttributeError"]

\* The loop runs without suspending: iteration after iteration until it
\* breaks.  A loop that has not ended after the whole script is still running.
RECURSIVE Run(_, _)
Run(p, script) ==
    IF p.result # "running" \/ script = <<>> THEN p
    ELSE Run(Iteration(p, Head(script)), Tail(script))

\* Where the loop can stand after at most MaxCalls iterations.
LoopEnds(prev) == { Run(Locals(prev), script) : script \in Scripts }

\* The record of a pull of track t with timestamp ts whose loop stands at p.
\* updated: a camera_update was applied while this pull slept in its await.
Pull(t, ts, p) ==
    [op |-> "recv", track |-> t, pts |-> ts,
     startFailed |-> Locals(tracks[t].lastFailed).failed_attempts,
     failed_attempts |-> p.failed_attempts, calls |-> p.calls, fails |-> p.fails,
     counted |-> p.counted, frame |-> p.frame, result |-> p.result,
     updated |-> tracks[t].updated,
     pose |-> RendererRender(renderers[heap[tracks[t].session].renderer]),
     framePts |-> IF p.result = "frame"
                  THEN frame_pts([pts |-> ts, failed_attempts |-> p.failed_attempts])
                  ELSE Unset,
     prevPts |-> tracks[t].lastPts, prevOk |-> tracks[t].lastOk,
     prevFailed |-> tracks[t].lastFailed,
     torn |-> Torn(heap[tracks[t].session].pc)]

\* recv from the loop on, for track t and timestamp ts (main.py:110-135).
Loop(t, ts) ==
    \E p \in LoopEnds(tracks[t].lastFailed) :
       /\ out' = Pull(t, ts, p)
       /\ tracks' = [tracks EXCEPT
             ![t].timestamp = ts,
             ![t].started = IF tracks[t].state = "idle" THEN @ + 1 ELSE @,
             ![t].updated = FALSE,
             ![t].state = IF p.result = "running" THEN "loop" ELSE "idle",
             ![t].lastOk = (p.result = "frame"),
             ![t].lastPts = IF p.result = "frame" THEN out'.framePts ELSE @,
             ![t].lastFailed = p.failed_attempts]

\* recv is called: pts, time_base = await self.next_timestamp() (main.py:108).
\* The first call does not suspend and goes on into the loop.  The pc's sender
\* calls recv while the connection is up.
RecvStart(t) ==
    /\ LoopFree
    /\ t \in Objs
    /\ tracks[t].state = "idle"
    /\ connectionState[heap[tracks[t].session].pc] = "connected"
    /\ nPulls < MaxPulls
    /\ nPulls' = nPulls + 1
    /\ IF tracks[t].timestamp = Unset
       THEN Loop(t, next_timestamp(tracks[t].timestamp))
       ELSE /\ tracks' = [tracks EXCEPT ![t].timestamp = next_timestamp(@),
                                        ![t].started = @ + 1,
                                        ![t].updated = FALSE,
                                        ![t].state = "waiting"]
            /\ out' = [op |-> "recv_await", track |-> t]
    /\ UNCHANGED <<listeners, sessions, heap, connectionState, offer, renderers, handled, nMsgs>>

\* The sleep of next_timestamp ends and recv runs its loop (main.py:110-135).
RecvResume(t) ==
    /\ LoopFree
    /\ t \in Objs
    /\ tracks[t].state = "waiting"
    /\ Loop(t, tracks[t].timestamp)
    /\ UNCHANGED <<listeners, sessions, heap, connectionState, offer, renderers, handled,
                   nPulls, nMsgs>>

\* pc.close() may stop the sender while recv sleeps: the await raises
\* CancelledError and recv ends without entering the loop (main.py:108).
RecvCancel(t) ==
    /\ LoopFree
    /\ t \in Objs
    /\ tracks[t].state = "waiting"
    /\ Closed(heap[tracks[t].session].pc)
    /\ tracks' = [tracks EXCEPT ![t].state = "idle", ![t].updated = FALSE,
                                ![t].lastOk = FALSE, ![t].lastFailed = 0]
    /\ out' = Pull(t, tracks[t].timestamp,
                    [Locals(tracks[t].lastFailed) EXCEPT !.result = "CancelledError"])
    /\ UNCHANGED <<listeners, sessions, heap, connectionState, offer, renderers, handled,
                   nPulls, nMsgs>>

\* ---------------------------------------------------------- specification
Signalling ==
    \/ \E sid \in SessionIds : create_offer(sid)
    \/ \E o \in Objs : offer_continue(o)
    \/ \E o \in Objs : offer_raise(o)
    \/ \E o \in Objs : \E st \in {"connecting", "connected", "failed"} :
          on_connectionstatechange(o, st)
    \/ \E o \in Objs : on_connectionstatechange_resume(o)
    \/ \E sid \in SessionIds : \E line \in CandidateLines :
          add_ice_candidate(sid, line)

Media ==
    \/ \E t \in Objs : \E m \in Messages : on_message(t, m)
    \/ \E t \in Objs : RecvStart(t)
    \/ \E t \in Objs : RecvResume(t)
    \/ \E t \in Objs : RecvCancel(t)

Next == Signalling \/ Media

\* The whole server.
Spec == Init /\ [][Next]_vars

\* The signalling plane alone: the actions that write the registry, the peer
\* connections and the requests' outcomes.
SpecSignalling == Init /\ [][Signalling]_vars

\* The life of the peer connections: the requests that create them and the
\* connection-state handler.
Connections ==
    \/ \E sid \in SessionIds : create_offer(sid)
    \/ \E o \in Objs : offer_continue(o)
    \/ \E o \in Objs : offer_raise(o)
    \/ \E o \in Objs : \E st \in {"connecting", "connected", "failed"} :
          on_connectionstatechange(o, st)
    \/ \E o \in Objs : on_connectionstatechange_resume(o)

\* The same with its scheduling: pc.close() returns and the event loop resumes
\* the handler that awaits it (main.py:176-177).
SpecTeardown ==
    /\ Init
    /\ [][Connections]_vars
    /\ \A o \in 1..MaxSessions : WF_vars(on_connectionstatechange_resume(o))

\* The media plane of one session, with the signalling steps that bring the
\* session up and tear it down.
Lifecycle ==
    \/ \E sid \in SessionIds : heap = <<>> /\ create_offer(sid)
    \/ \E o \in Objs : offer_continue(o)
    \/ \E o \in Objs : \E st \in {"connecting", "connected", "failed"} :
          on_connectionstatechange(o, st)
    \/ \E o \in Objs : on_connectionstatechange_resume(o)

SpecMedia == Init /\ [][Lifecycle \/ Media]_vars

\* ------------------------------------------------------------------ claims
IsPull == out.op = "recv"

\* The pull ended after its retry budget was used up.
Exhausted == IsPull /\ out.result \in {"UnboundLocalError", "AttributeError"}

\* C1: a create_offer for an id that is already registered fails and leaves
\* the registry as it was: the id still maps to the Session it mapped to.
C1_DuplicateOfferRejected ==
    (out.op = "create_offer" /\ out.existed) =>
        /\ out.result = "rejected"
        /\ sessions[out.session_id] = out.before

\* C2: add_ice_candidate for an id that is not registered ends as NotFound,
\* not in an unhandled exception, and forwards nothing.
C2_UnknownIdIsNotFound ==
    (out.op = "add_ice_candidate" /\ ~Has(sessions, out.session_id)) =>
        /\ out.result = "NotFound"
        /\ ~out.forwarded

\* C3: when the handler has finished for a failed pc, the pc is closed and the
\* session's id is out of the registry; from then on, until the id is offered
\* again, add_ice_candidate for that id fails as NotFound.
C3_FailedRemovesSession ==
    /\ out.op = "handler_done" =>
          /\ Closed(out.pc)
          /\ ~Has(sessions, out.session_id)
    /\ ( /\ out.op = "add_ice_candidate"
         /\ ~Has(sessions, out.session_id)
         /\ \E o \in Objs : heap[o].session_id = out.session_id /\ Torn(heap[o].pc) )
       => out.result = "NotFound"

\* C4: in one pull the renderer is called at most max_failed_attempts times,
\* every iteration that yields no frame adds one to the failure counter, and a
\* pull in which every iteration fails ends after exactly that many calls.
C4_RetryBound ==
    (IsPull /\ out.result # "CancelledError") =>
        /\ out.calls <= max_failed_attempts
        /\ out.failed_attempts = out.fails
        /\ (out.fails = out.calls /\ out.calls >= max_failed_attempts) =>
              (out.calls = max_failed_attempts /\ out.result # "running")

\* C5: a pull whose failure counter reaches max_failed_attempts returns the
\* outcome ProducerExhausted, not an error.
C5_ExhaustionIsAnOutcome ==
    (IsPull /\ out.failed_attempts >= max_failed_attempts) =>
        out.result = "ProducerExhausted"

\* C6: once the handler has finished for the failure of a session's pc, a
\* pull on that session's FrameProducer returns no frame: it ends as
\* ProducerExhausted.
C6_NoFrameAfterTeardown ==
    (IsPull /\ out.torn) => out.result = "ProducerExhausted"

\* A Session is live while its pc has not been closed: its FrameProducer is
\* still the track of an open pc.
Live(o) == ~Closed(heap[o].pc)

\* C7: at most one live Session per session id, and no renderer or peer
\* connection belongs to two Sessions.
C7_OneLiveSessionPerId ==
    /\ \A o1 \in Objs : \A o2 \in Objs :
          (o1 # o2 /\ Live(o1) /\ Live(o2)) =>
              heap[o1].session_id # heap[o2].session_id
    /\ \A o1 \in Objs : \A o2 \in Objs :
          o1 # o2 => (heap[o1].renderer # heap[o2].renderer /\ heap[o1].pc # heap[o2].pc)

\* The pose a camera_update payload <<position, rotation>> puts in the renderer.
PoseOf(u) == [position |-> u[1], rotation |-> from_euler(u[2])]

\* C8: the pose a render call of a pull reads is the initial pose or the pose
\* of one camera_update applied to that session: position and rotation are
\* never from two different updates.
C8_NoTornPose ==
    (IsPull /\ out.calls > 0) =>
        out.pose \in {InitPose} \cup
            { PoseOf(u) : u \in handled[heap[tracks[out.track].session].renderer] }

\* A pull that slept in its await while a camera_update was applied, after an
\* earlier update, and then rendered.
C8_Witness ==
    /\ IsPull
    /\ out.calls > 0
    /\ out.updated
    /\ Cardinality(handled[heap[tracks[out.track].session].renderer]) >= 2

\* C9: every pull advances the timestamp counter once (the k-th pull finds it
\* at (k-1) steps); a returned frame carries a timestamp above that of the
\* frame returned before it, and exactly one step above it when the pull
\* before this one returned a frame too.
C9_Timestamps ==
    /\ \A t \in Objs :
          tracks[t].timestamp =
              IF tracks[t].started = 0 THEN Unset
              ELSE (tracks[t].started - 1) * ClockStep
    /\ (IsPull /\ out.result = "frame") =>
          /\ out.prevPts # Unset => out.framePts > out.prevPts
          /\ out.prevOk => out.framePts = out.prevPts + ClockStep

\* The third pull in a row that returns a frame, this one after failed attempts.
C9_Witness ==
    /\ IsPull
    /\ out.result = "frame"
    /\ out.prevOk
    /\ out.failed_attempts > 0
    /\ tracks[out.track].started >= 3

\* C10: every pull enters its loop with a failure counter of 0 and is not
\* exhausted before max_failed_attempts of its own iterations have failed,
\* whatever the pull before it did.
C10_FreshBudget ==
    IsPull =>
        /\ out.startFailed = 0
        /\ out.failed_attempts = out.counted
        /\ Exhausted => out.counted = max_failed_attempts

\* A pull that is exhausted right after an exhausted pull on the same producer.
C10_Witness ==
    /\ Exhausted
    /\ out.prevFailed = max_failed_attempts
    /\ out.calls >= max_failed_attempts

\* A message that cannot be decoded: not JSON, without a "type", or a
\* camera_update without "position" or without "rotation".
Undecodable(m) ==
    \/ ~m.json
    \/ "type" \notin DOMAIN m.obj
    \/ /\ m.obj["type"] = "camera_update"
       /\ ~({"position", "rotation"} \subseteq DOMAIN m.obj)

\* C11: a control message that cannot be decoded is dropped: the handler
\* returns without an error leaving it.
C11_MalformedDropped ==
    (out.op = "on_message" /\ Undecodable(out.message)) =>
        out.result \notin {"JSONDecodeError", "KeyError"}

RendererOf(t) == heap[tracks[t].session].renderer

\* C13: a decodable message of a type other than camera_update raises nothing
\* and changes neither a pose nor the registry; the pose of a renderer changes
\* only in the handling of a camera_update on the channel of its own session.
C13_OtherTypeIsNoOp ==
    [][/\ ( /\ out'.op = "on_message"
            /\ ~Undecodable(out'.message)
            /\ out'.message.obj["type"] # "camera_update" ) =>
              /\ out'.result = "ignored"
              /\ UNCHANGED <<sessions, heap, connectionState, offer, renderers,
                             handled>>
       /\ \A r \in DOMAIN renderers :
              renderers'[r] # renderers[r] =>
                  /\ out'.op = "on_message"
                  /\ ~Undecodable(out'.message)
                  /\ out'.message.obj["type"] = "camera_update"
                  /\ RendererOf(out'.track) = r]_vars

\* A message of another type, with a position and a rotation in it, handled
\* after a camera_update moved the camera.
C13_Witness ==
    /\ out.op = "on_message"
    /\ out.result = "ignored"
    /\ {"position", "rotation"} \subseteq DOMAIN out.message.obj
    /\ renderers[RendererOf(out.track)] # InitPose

\* C14: the retry loop of every pull ends within max_failed_attempts
\* iterations, whatever the renderer and the codec do: no pull is still in its
\* loop after that many iterations.
C14_PullTerminates ==
    (IsPull /\ out.calls >= max_failed_attempts) => out.result # "running"

\* C15: when the handler finishes for the failure of a pc it has removed the
\* registry entry of the Session that owns that pc and no other, and it did
\* not fail on an id that was already gone.
C15_FailedRemovesOnlyOwn ==
    out.op = "handler_done" =>
        /\ out.result = "removed"
        /\ heap[out.removed].pc = out.pc

\* C16: no add_ice_candidate request gets from the registry a Session whose
\* pc has already been closed, so no candidate is handed to a closed pc.
C16_NoHalfTornLookup ==
    (out.op = "add_ice_candidate" /\ out.result # "KeyError") =>
        ~out.pcClosed

\* The pose the renderer of track t holds when the camera_update payloads
\* handled on its channel were applied one after the other, in arrival order.
LatestPose(t) ==
    IF tracks[t].lastUpdate = <<>> THEN InitPose ELSE PoseOf(tracks[t].lastUpdate)

\* C17: when a camera_update has been handled the renderer holds the pose of
\* that message, whatever was applied before it, and the render calls of a
\* pull read the pose of the camera_update handled last before the loop ran
\* (the initial pose when there was none).
C17_LatestPoseRead ==
    /\ (out.op = "on_message" /\ out.result = "camera_update") =>
          renderers[RendererOf(out.track)] =
              PoseOf(<<out.message.obj["position"], out.message.obj["rotation"]>>)
    /\ \A t \in Objs : renderers[RendererOf(t)] = LatestPose(t)
    /\ (IsPull /\ out.calls > 0) => out.pose = LatestPose(out.track)

\* A pull that rendered after two different camera_updates, the second of
\* them handled while the pull slept in its await.
C17_Witness ==
    /\ IsPull
    /\ out.calls > 0
    /\ out.updated
    /\ tracks[out.track].lastUpdate # <<>>
    /\ out.pose = PoseOf(tracks[out.track].lastUpdate)
    /\ \E u \in handled[RendererOf(out.track)] : PoseOf(u) # out.pose

Setup ==
    <<"RTCPeerConnection", "create_session", "addTrack",
      "on_connectionstatechange", "on_datachannel">>

\* C19: when create_offer reaches its first suspension point it is entering
\* setRemoteDescription and has, in this order, created the pc, registered the
\* Session, attached the FrameProducer and registered both handlers; hence
\* every pc has both handlers from its creation on, and a connection-state
\* change or a control message of a session finds its handler registered.
C19_SetupBeforeNegotiation ==
    /\ out.op = "create_offer" =>
          /\ out.done = Setup
          /\ offer[Len(heap)] = "setRemoteDescription"
          /\ Has(sessions, out.session_id)
          /\ sessions[out.session_id] = Len(heap)
          /\ tracks[Len(heap)].session = Len(heap)
          /\ connectionState[Len(heap)] = "new"
    /\ \A o \in Objs : listeners[o] = {"connectionstatechange", "datachannel"}
    /\ out.op = "connectionstatechange" => out.handler

\* A control message handled on a session whose create_offer request has not
\* returned yet.
C19_Witness ==
    /\ out.op = "on_message"
    /\ offer[heap[tracks[out.track].session].pc] = "setLocalDescription"
    /\ "datachannel" \in listeners[heap[tracks[out.track].session].pc]

\* C20: when one of the three awaits of create_offer has raised, the registry
\* holds no entry for the id of the request and the pc the request created
\* is closed.
C20_FailedOfferLeavesNothing ==
    out.op = "offer_raise" =>
        /\ ~Has(sessions, heap[out.pc].session_id)
        /\ Closed(out.pc)

====
